---- MODULE Spec2Model ----
(***************************************************************************)
(* A model of src/nn.py: the Tensor node, the operation constructors Add,  *)
(* Mul, Neg, Matmul, Pow, Div and Exp with their _backward closures, the   *)
(* operator methods of Tensor that wrap them, and Tensor.backward.         *)
(*                                                                         *)
(* Numbers.  The arrays hold float64 values; the model keeps them as exact *)
(* rationals <<n, d>> in lowest terms with d > 0.  np.exp is applied only  *)
(* where its value is rational (e^0 = 1).                                  *)
(*                                                                         *)
(* Arrays.  An ndarray is [shape, el]: shape is <<>> for the 0-d array of  *)
(* a Python scalar and <<r, c>> for a matrix, el its elements, row-major.  *)
(*                                                                         *)
(* Nodes.  The Tensors live in the sequence arena, in order of creation;   *)
(* a Tensor is named by its index.  prev is the iteration order of the set *)
(* _prev (a Python set of objects hashed by address iterates in an order   *)
(* fixed when the set is built and not determined by the program).         *)
(***************************************************************************)
EXTENDS Integers, Sequences, FiniteSets, TLC

VARIABLES arena, built, last, pc, root, stack, visited, topo, k, calls, grad0, invoked

vars == <<arena, built, last, pc, root, stack, visited, topo, k, calls, grad0, invoked>>

(***************************************************************************)
(* Bounds of the model.                                                    *)
(***************************************************************************)
MaxOps == 3
MaxCalls == 2
MaxDim == 2

\* the values of leaf data, of scalar literals and of exponents
LeafValues == {0, 2}
LitValues == {1}
Exponents == {2}

(***************************************************************************)
(* Exact rational arithmetic.                                              *)
(***************************************************************************)
Abs(x) == IF x < 0 THEN -x ELSE x

RECURSIVE GCD(_, _)
GCD(x, y) == IF y = 0 THEN x ELSE GCD(y, x % y)

Rat(n, d) ==
    LET g == GCD(Abs(n), Abs(d))
        s == IF d < 0 THEN -1 ELSE 1
    IN  <<(s * n) \div g, (s * d) \div g>>

Q(n) == <<n, 1>>
RAdd(x, y) == Rat(x[1] * y[2] + y[1] * x[2], x[2] * y[2])
RMul(x, y) == Rat(x[1] * y[1], x[2] * y[2])
RNeg(x) == <<-x[1], x[2]>>
RDiv(x, y) == Rat(x[1] * y[2], x[2] * y[1])

RECURSIVE RPow(_, _)
RPow(x, n) == IF n = 0 THEN Q(1) ELSE RMul(x, RPow(x, n - 1))

(***************************************************************************)
(* The ndarray operations the source uses.                                 *)
(***************************************************************************)
Scalar(q) == [shape |-> <<>>, el |-> <<q>>]

Full(shape, q) ==
    [shape |-> shape,
     el |-> [i \in 1..(IF shape = <<>> THEN 1 ELSE shape[1] * shape[2]) |-> q]]

\* np.zeros_like(x), np.ones_like(x)
ZerosLike(x) == Full(x.shape, Q(0))
OnesLike(x) == Full(x.shape, Q(1))

\* the operand shapes an elementwise operation of the model is applied to:
\* equal shapes, or a 0-d array broadcast against the other operand
Broadcastable(x, y) == x.shape = y.shape \/ x.shape = <<>> \/ y.shape = <<>>

ElementWise(F(_, _), x, y) ==
    LET big == IF x.shape = <<>> THEN y ELSE x
        At(z, i) == IF z.shape = <<>> THEN z.el[1] ELSE z.el[i]
    IN  [shape |-> big.shape,
         el |-> [i \in 1..Len(big.el) |-> F(At(x, i), At(y, i))]]

NpAdd(x, y) == ElementWise(RAdd, x, y)
NpMul(x, y) == ElementWise(RMul, x, y)
NpDiv(x, y) == ElementWise(RDiv, x, y)
NpNeg(x) == [x EXCEPT !.el = [i \in 1..Len(x.el) |-> RNeg(x.el[i])]]

\* np.power(x, y), y an array of integers >= 0
NpPower(x, y) == ElementWise(LAMBDA u, v : RPow(u, v[1]), x, y)

\* np.exp(x), for the x whose exponential is rational
ExpDefined(x) == \A i \in 1..Len(x.el) : x.el[i] = Q(0)
NpExp(x) == [x EXCEPT !.el = [i \in 1..Len(x.el) |-> Q(1)]]

NoZero(x) == \A i \in 1..Len(x.el) : x.el[i][1] # 0

\* a reshape in the place of the transpose
NpTReshaped(x) == [shape |-> <<x.shape[2], x.shape[1]>>, el |-> x.el]

\* x.T of a matrix
NpT(x) ==
    LET r == x.shape[1]
        c == x.shape[2]
    IN  [shape |-> <<c, r>>,
         el |-> [i \in 1..(r * c) |->
                   x.el[((i - 1) % r) * c + ((i - 1) \div r) + 1]]]

RECURSIVE DotFrom(_, _, _, _, _)
DotFrom(x, y, i, j, l) ==
    IF l = 0 THEN Q(0)
    ELSE RAdd(DotFrom(x, y, i, j, l - 1),
              RMul(x.el[(i - 1) * x.shape[2] + l], y.el[(l - 1) * y.shape[2] + j]))

\* x @ y of an (m, k) and a (k, n) matrix
MatmulDefined(x, y) ==
    Len(x.shape) = 2 /\ Len(y.shape) = 2 /\ x.shape[2] = y.shape[1]

NpMatmul(x, y) ==
    LET m == x.shape[1]
        n == y.shape[2]
    IN  [shape |-> <<m, n>>,
         el |-> [i \in 1..(m * n) |->
                   DotFrom(x, y, ((i - 1) \div n) + 1, ((i - 1) % n) + 1, x.shape[2])]]

\* g += x on an ndarray: the sum is written into g, which keeps its shape
IAdd(g, x) == NpAdd(g, x)

(***************************************************************************)
(* Tensor and the operation constructors.  A constructor is an operator    *)
(* from the arena to the arena with the new Tensor z appended; z's index   *)
(* is Len(ar) + 1.  The field backward is the closure z._backward: its     *)
(* kind and the operands (and exponent) it captured.                       *)
(***************************************************************************)
NoClosure == [fn |-> "None", a |-> 0, b |-> 0, p |-> Scalar(Q(0))]

\* the orders in which set(_children) may iterate
Orders(children) ==
    {o \in UNION {[1..n -> children] : n \in 0..Cardinality(children)} :
        /\ Len(o) = Cardinality(children)
        /\ \A i, j \in 1..Len(o) : i # j => o[i] # o[j]}

\* Tensor.__init__; order is the iteration order of _prev = set(_children)
Tensor(data, order, op, requires_grad) ==
    [data |-> data,
     grad |-> ZerosLike(data),
     backward |-> NoClosure,
     prev |-> order,
     op |-> op,
     requires_grad |-> requires_grad]

Closure(fn, a, b, p) == [fn |-> fn, a |-> a, b |-> b, p |-> p]

Add(ar, a, b, order) ==
    LET requires_grad == ar[a].requires_grad \/ ar[b].requires_grad
        data == NpAdd(ar[a].data, ar[b].data)
        z == Tensor(data, order, "+", requires_grad)
    IN  Append(ar, [z EXCEPT !.backward = Closure("Add", a, b, NoClosure.p)])

Mul(ar, a, b, order) ==
    LET requires_grad == ar[a].requires_grad \/ ar[b].requires_grad
        data == NpMul(ar[a].data, ar[b].data)
        z == Tensor(data, order, "*", requires_grad)
    IN  Append(ar, [z EXCEPT !.backward = Closure("Mul", a, b, NoClosure.p)])

Neg(ar, a, order) ==
    LET data == NpMul(ar[a].data, Scalar(Q(-1)))
        z == Tensor(data, order, "neg", ar[a].requires_grad)
    IN  Append(ar, [z EXCEPT !.backward = Closure("Neg", a, 0, NoClosure.p)])

Matmul(ar, a, b, order) ==
    LET requires_grad == ar[a].requires_grad \/ ar[b].requires_grad
        data == NpMatmul(ar[a].data, ar[b].data)
        z == Tensor(data, order, "@", requires_grad)
    IN  Append(ar, [z EXCEPT !.backward = Closure("Matmul", a, b, NoClosure.p)])

\* An exponent is [t |-> "exponent", kind, v]: a Python int or float (v its
\* value as a 0-d array, which is how np.power and the arithmetic of
\* _backward see it), an ndarray v, or a str (v unused).
IsIntOrFloat(b) == b.kind \in {"int", "float"}
AsArray(b) == b.v

\* np.power(a.data, b) raises TypeError for a str
PowRaises(b) == b.kind = "str"

Pow(ar, a, b, order) ==
    LET data == NpPower(ar[a].data, AsArray(b))
        z == Tensor(data, order, "pow", ar[a].requires_grad)
    IN  Append(ar, [z EXCEPT !.backward = Closure("Pow", a, 0, AsArray(b))])

Div(ar, a, b, order) ==
    LET requires_grad == ar[a].requires_grad \/ ar[b].requires_grad
        data == NpDiv(ar[a].data, ar[b].data)
        z == Tensor(data, order, "*", requires_grad)
    IN  Append(ar, [z EXCEPT !.backward = Closure("Div", a, b, NoClosure.p)])

Exp(ar, a, order) ==
    LET data == NpExp(ar[a].data)
        z == Tensor(data, order, "exp", ar[a].requires_grad)
    IN  Append(ar, [z EXCEPT !.backward = Closure("Exp", a, 0, NoClosure.p)])

(***************************************************************************)
(* The _backward closures: z is the index of the Tensor whose closure runs;*)
(* the result is the arena after it.                                       *)
(***************************************************************************)
AddGrad(ar, n, x) == [ar EXCEPT ![n].grad = IAdd(@, x)]

\* Add's closure without the test of b.requires_grad
AddBackwardUnguarded(ar, z) ==
    LET a == ar[z].backward.a
        b == ar[z].backward.b
        ar1 == IF ar[a].requires_grad THEN AddGrad(ar, a, ar[z].grad) ELSE ar
    IN  AddGrad(ar1, b, ar1[z].grad)

AddBackward(ar, z) ==
    LET a == ar[z].backward.a
        b == ar[z].backward.b
        ar1 == IF ar[a].requires_grad THEN AddGrad(ar, a, ar[z].grad) ELSE ar
    IN  IF ar1[b].requires_grad THEN AddGrad(ar1, b, ar1[z].grad) ELSE ar1

MulBackward(ar, z) ==
    LET a == ar[z].backward.a
        b == ar[z].backward.b
        ar1 == IF ar[a].requires_grad
               THEN AddGrad(ar, a, NpMul(ar[b].data, ar[z].grad))
               ELSE ar
    IN  IF ar1[b].requires_grad
        THEN AddGrad(ar1, b, NpMul(ar1[a].grad, ar1[z].grad))
        ELSE ar1

NegBackward(ar, z) ==
    LET a == ar[z].backward.a
    IN  IF ar[a].requires_grad
        THEN AddGrad(ar, a, NpMul(Scalar(Q(-1)), ar[z].grad))
        ELSE ar

MatmulBackward(ar, z) ==
    LET a == ar[z].backward.a
        b == ar[z].backward.b
        ar1 == IF ar[a].requires_grad
               THEN AddGrad(ar, a, NpMatmul(ar[z].grad, NpT(ar[b].data)))
               ELSE ar
    IN  IF ar1[b].requires_grad
        THEN AddGrad(ar1, b, NpMatmul(NpT(ar1[a].data), ar1[z].grad))
        ELSE ar1

PowBackward(ar, z) ==
    LET a == ar[z].backward.a
        b == ar[z].backward.p
    IN  IF ar[a].requires_grad
        THEN AddGrad(ar, a,
                 NpMul(NpMul(b, NpPower(ar[a].data, NpAdd(b, Scalar(Q(-1))))),
                       ar[z].grad))
        ELSE ar

DivBackward(ar, z) ==
    LET a == ar[z].backward.a
        b == ar[z].backward.b
        ar1 == IF ar[a].requires_grad
               THEN AddGrad(ar, a, NpMul(ar[z].grad, NpDiv(Scalar(Q(1)), ar[b].data)))
               ELSE ar
    IN  IF ar1[b].requires_grad
        THEN AddGrad(ar1, b,
                 NpDiv(NpMul(NpNeg(ar1[z].grad), ar1[a].data),
                       NpPower(ar1[b].data, Scalar(Q(2)))))
        ELSE ar1

ExpBackward(ar, z) ==
    LET a == ar[z].backward.a
    IN  IF ar[a].requires_grad
        THEN AddGrad(ar, a, NpMul(ar[z].data, ar[z].grad))
        ELSE ar

\* node._backward()
CallBackward(ar, z) ==
    CASE ar[z].backward.fn = "None" -> ar
      [] ar[z].backward.fn = "Add" -> AddBackward(ar, z)
      [] ar[z].backward.fn = "Mul" -> MulBackward(ar, z)
      [] ar[z].backward.fn = "Neg" -> NegBackward(ar, z)
      [] ar[z].backward.fn = "Matmul" -> MatmulBackward(ar, z)
      [] ar[z].backward.fn = "Pow" -> PowBackward(ar, z)
      [] ar[z].backward.fn = "Div" -> DivBackward(ar, z)
      [] ar[z].backward.fn = "Exp" -> ExpBackward(ar, z)

(***************************************************************************)
(* The methods of Tensor that wrap the constructors.  other is either a    *)
(* Tensor of the arena, [t |-> "Tensor", i |-> index], or a Python scalar, *)
(* [t |-> "scalar", v |-> value].                                          *)
(***************************************************************************)
\* other if isinstance(other, Tensor) else Tensor(other)
Coerce(ar, other) ==
    IF other.t = "Tensor" THEN ar
    ELSE Append(ar, Tensor(Scalar(Q(other.v)), <<>>, "", FALSE))

Ref(ar, other) == IF other.t = "Tensor" THEN other.i ELSE Len(ar) + 1

DunderAdd(ar, self, other, order) ==
    Add(Coerce(ar, other), self, Ref(ar, other), order)

DunderRadd(ar, self, other, order) == DunderAdd(ar, self, other, order)

DunderMul(ar, self, other, order) ==
    Mul(Coerce(ar, other), self, Ref(ar, other), order)

DunderRmul(ar, self, other, order) == DunderMul(ar, self, other, order)

DunderNeg(ar, self) == Neg(ar, self, <<self>>)

\* self + (-other)
DunderSub(ar, self, other, order) ==
    LET ar1 == DunderNeg(Coerce(ar, other), Ref(ar, other))
    IN  DunderAdd(ar1, self, [t |-> "Tensor", i |-> Len(ar1)], order)

\* self - other
DunderRsub(ar, self, other, order) == DunderSub(ar, self, other, order)

DunderMatmul(ar, self, other, order) == Matmul(ar, self, other.i, order)

DunderTruediv(ar, self, other, order) ==
    Div(Coerce(ar, other), self, Ref(ar, other), order)

MethodExp(ar, self) == Exp(ar, self, <<self>>)

\* assert isinstance(other, (int, float)), "only supporting int/float powers for now"
DunderPowRaises(b) == ~IsIntOrFloat(b)

DunderPow(ar, self, b) == Pow(ar, self, b, <<self>>)

(***************************************************************************)
(* Tensor.backward.  The recursion of build_topo is the stack of frames    *)
(* [v, i]: the call build_topo(v) about to look at the i-th child of v in  *)
(* the iteration order of v._prev.  A traversal m is [stack, visited,      *)
(* topo].                                                                  *)
(***************************************************************************)
Grads(ar) == [n \in 1..Len(ar) |-> ar[n].grad]

Frame(v) == [v |-> v, i |-> 1]

\* topo = [], visited = set(), and build_topo(self) is entered: self is not in
\* the empty visited and is added to it
Enter(r) == [stack |-> <<Frame(r)>>, visited |-> {r}, topo |-> <<>>]

TopFrame(m) == m.stack[Len(m.stack)]
HasChild(ar, m) == TopFrame(m).i <= Len(ar[TopFrame(m).v].prev)
NextChild(ar, m) == ar[TopFrame(m).v].prev[TopFrame(m).i]

\* build_topo without its visited test
NeverVisited(v, seen) == TRUE

\* if v not in visited
NotVisited(v, seen) == v \notin seen

\* build_topo(child) for a child not yet visited: visited.add(child), and
\* the loop over child's children starts
Descend(ar, m) ==
    [stack |-> Append([m.stack EXCEPT ![Len(m.stack)].i = @ + 1],
                      Frame(NextChild(ar, m))),
     visited |-> m.visited \cup {NextChild(ar, m)},
     topo |-> m.topo]

\* build_topo(child) for a child already visited returns at once
Skip(ar, m) == [m EXCEPT !.stack[Len(m.stack)].i = @ + 1]

\* the loop over v's children is over: topo.append(v), build_topo(v) returns
Finish(ar, m) ==
    [stack |-> SubSeq(m.stack, 1, Len(m.stack) - 1),
     visited |-> m.visited,
     topo |-> Append(m.topo, TopFrame(m).v)]

TopoStep(ar, m) ==
    IF HasChild(ar, m)
    THEN IF NotVisited(NextChild(ar, m), m.visited) THEN Descend(ar, m) ELSE Skip(ar, m)
    ELSE Finish(ar, m)

RECURSIVE Reversed(_)
Reversed(s) == IF s = <<>> THEN <<>> ELSE Append(Reversed(Tail(s)), Head(s))

\* the replay without the reversal
ForwardOrder(t) == t

\* the nodes of "for node in reversed(topo)", in order
ReplayOrder(t) == Reversed(t)

\* self.grad = np.ones_like(self.data)
SeedGrad(ar, r) == [ar EXCEPT ![r].grad = OnesLike(ar[r].data)]

RECURSIVE BuildTopo(_, _)
\* build_topo(self), run to its end: the topo it leaves
BuildTopo(ar, m) == IF m.stack = <<>> THEN m.topo ELSE BuildTopo(ar, TopoStep(ar, m))

RECURSIVE ReplayFrom(_, _, _)
\* the replay loop from position j of order on
ReplayFrom(ar, order, j) ==
    IF j > Len(order) THEN ar
    ELSE ReplayFrom(CallBackward(ar, order[j]), order, j + 1)

\* the arena after r.backward() has run to its end
RunToEnd(ar, r) ==
    ReplayFrom(SeedGrad(ar, r), ReplayOrder(BuildTopo(ar, Enter(r))), 1)

(***************************************************************************)
(* The inputs of the model.                                                *)
(***************************************************************************)
LeafShapes == {<<1, 1>>}
LeafData == {Full(sh, Q(v)) : sh \in LeafShapes, v \in LeafValues}
TensorOthers(ar) == {[t |-> "Tensor", i |-> j] : j \in 1..Len(ar)}
ScalarOthers == {[t |-> "scalar", v |-> c] : c \in LitValues}
Others(ar) == TensorOthers(ar) \cup ScalarOthers
ExponentsFor(x) ==
    {[t |-> "exponent", kind |-> kd, v |-> Scalar(Q(e))] :
            kd \in {"int", "float"}, e \in Exponents}
        \cup {[t |-> "exponent", kind |-> "ndarray", v |-> Full(x.shape, Q(e))] :
                e \in Exponents}
        \cup {[t |-> "exponent", kind |-> "str", v |-> Scalar(Q(0))]}

DataOf(ar, other) == IF other.t = "Tensor" THEN ar[other.i].data ELSE Scalar(Q(other.v))

\* the index of the Tensor -other that a - other creates
NegRef(ar, other) == Len(Coerce(ar, other)) + 1

(***************************************************************************)
(* The state.  arena: the Tensors.  built: the constructor calls made.     *)
(* pc, root, stack, visited, topo, k: the backward call in progress (k is  *)
(* the position of the replay loop).  calls: the roots of the backward     *)
(* calls made.  Three records of what happened, for the properties: last   *)
(* is the latest constructor call with the arena before it, grad0 the      *)
(* grads when the latest backward call started, invoked the nodes whose    *)
(* _backward that call has invoked, in order.                              *)
(***************************************************************************)
None == [t |-> "None"]
NoCall == [call |-> "", self |-> 0, other |-> None, raised |-> "", before |-> <<>>]
Called(name, self, other, raised) ==
    [call |-> name, self |-> self, other |-> other, raised |-> raised,
     before |-> arena]

Idle ==
    /\ pc = "idle"
    /\ root = 0
    /\ stack = <<>>
    /\ visited = {}
    /\ topo = <<>>
    /\ k = 0
    /\ grad0 = <<>>
    /\ invoked = <<>>
    /\ calls = <<>>

Init ==
    /\ arena = <<>>
    /\ built = 0
    /\ last = NoCall
    /\ Idle

\* the model builds the graph, in at most MaxOps calls, and then calls backward
CanBuild == pc = "idle" /\ calls = <<>> /\ built < MaxOps

Built(ar, name, self, other) ==
    /\ arena' = ar
    /\ built' = built + 1
    /\ last' = Called(name, self, other, "")
    /\ UNCHANGED <<pc, root, stack, visited, topo, k, grad0, invoked, calls>>

Raised(name, self, other, error) ==
    /\ last' = Called(name, self, other, error)
    /\ UNCHANGED <<arena, built, pc, root, stack, visited, topo, k, grad0, invoked, calls>>

\* Tensor(data, requires_grad=rg)
NewTensor ==
    /\ CanBuild
    /\ \E data \in LeafData, rg \in BOOLEAN :
           Built(Append(arena, Tensor(data, <<>>, "", rg)), "Tensor", 0, None)

\* a + other
CallAdd ==
    /\ CanBuild
    /\ \E self \in 1..Len(arena), other \in Others(arena) :
         \E order \in Orders({self, Ref(arena, other)}) :
           /\ Broadcastable(arena[self].data, DataOf(arena, other))
           /\ Built(DunderAdd(arena, self, other, order), "__add__", self, other)

\* c + a
CallRadd ==
    /\ CanBuild
    /\ \E self \in 1..Len(arena), other \in ScalarOthers :
         \E order \in Orders({self, Ref(arena, other)}) :
           Built(DunderRadd(arena, self, other, order), "__radd__", self, other)

\* a * other
CallMul ==
    /\ CanBuild
    /\ \E self \in 1..Len(arena), other \in Others(arena) :
         \E order \in Orders({self, Ref(arena, other)}) :
           /\ Broadcastable(arena[self].data, DataOf(arena, other))
           /\ Built(DunderMul(arena, self, other, order), "__mul__", self, other)

\* c * a
CallRmul ==
    /\ CanBuild
    /\ \E self \in 1..Len(arena), other \in ScalarOthers :
         \E order \in Orders({self, Ref(arena, other)}) :
           Built(DunderRmul(arena, self, other, order), "__rmul__", self, other)

\* -a
CallNeg ==
    /\ CanBuild
    /\ \E self \in 1..Len(arena) :
           Built(DunderNeg(arena, self), "__neg__", self, None)

\* a - other
CallSub ==
    /\ CanBuild
    /\ \E self \in 1..Len(arena), other \in Others(arena) :
         \E order \in Orders({self, NegRef(arena, other)}) :
           /\ Broadcastable(arena[self].data, DataOf(arena, other))
           /\ Built(DunderSub(arena, self, other, order), "__sub__", self, other)

\* c - a
CallRsub ==
    /\ CanBuild
    /\ \E self \in 1..Len(arena), other \in ScalarOthers :
         \E order \in Orders({self, NegRef(arena, other)}) :
           Built(DunderRsub(arena, self, other, order), "__rsub__", self, other)

\* a @ b
CallMatmul ==
    /\ CanBuild
    /\ \E self \in 1..Len(arena), other \in TensorOthers(arena) :
         \E order \in Orders({self, other.i}) :
           /\ MatmulDefined(arena[self].data, arena[other.i].data)
           /\ Built(DunderMatmul(arena, self, other, order), "__matmul__", self, other)

\* a ** b
CallPow ==
    /\ CanBuild
    /\ \E self \in 1..Len(arena) :
         \E b \in ExponentsFor(arena[self].data) :
           IF DunderPowRaises(b)
           THEN Raised("__pow__", self, b, "AssertionError")
           ELSE Built(DunderPow(arena, self, b), "__pow__", self, b)

\* Pow(a, b), the constructor called directly
CallPowDirect ==
    /\ CanBuild
    /\ \E self \in 1..Len(arena) :
         \E b \in ExponentsFor(arena[self].data) :
           IF PowRaises(b)
           THEN Raised("Pow", self, b, "TypeError")
           ELSE Built(Pow(arena, self, b, <<self>>), "Pow", self, b)

\* a / other
CallTruediv ==
    /\ CanBuild
    /\ \E self \in 1..Len(arena), other \in Others(arena) :
         \E order \in Orders({self, Ref(arena, other)}) :
           /\ Broadcastable(arena[self].data, DataOf(arena, other))
           /\ NoZero(DataOf(arena, other))
           /\ Built(DunderTruediv(arena, self, other, order), "__truediv__", self, other)

\* a.exp()
CallExp ==
    /\ CanBuild
    /\ \E self \in 1..Len(arena) :
           /\ ExpDefined(arena[self].data)
           /\ Built(MethodExp(arena, self), "exp", self, None)

Traversal == [stack |-> stack, visited |-> visited, topo |-> topo]

Traverse(m) ==
    /\ stack' = m.stack
    /\ visited' = m.visited
    /\ topo' = m.topo

\* r.backward() is called
BackwardCall(r) ==
    /\ pc = "idle"
    /\ root' = r
    /\ Traverse(Enter(r))
    /\ pc' = "topo"
    /\ grad0' = Grads(arena)
    /\ invoked' = <<>>
    /\ calls' = Append(calls, r)
    /\ k' = 0
    /\ UNCHANGED <<arena, built, last>>

\* backward is called on any Tensor
Backward ==
    /\ Len(calls) < MaxCalls
    /\ \E r \in 1..Len(arena) : BackwardCall(r)

\* the loop of build_topo reaches a child not yet visited
TopoVisit ==
    /\ pc = "topo"
    /\ HasChild(arena, Traversal)
    /\ NotVisited(NextChild(arena, Traversal), visited)
    /\ Traverse(TopoStep(arena, Traversal))
    /\ UNCHANGED <<arena, built, pc, root, k, grad0, invoked, calls, last>>

\* the loop of build_topo reaches a child already visited
TopoSkip ==
    /\ pc = "topo"
    /\ HasChild(arena, Traversal)
    /\ ~NotVisited(NextChild(arena, Traversal), visited)
    /\ Traverse(TopoStep(arena, Traversal))
    /\ UNCHANGED <<arena, built, pc, root, k, grad0, invoked, calls, last>>

\* topo.append(v) and build_topo(v) returns; build_topo(self) returning ends
\* the traversal
TopoAppend ==
    /\ pc = "topo"
    /\ ~HasChild(arena, Traversal)
    /\ Traverse(TopoStep(arena, Traversal))
    /\ pc' = IF Len(stack) = 1 THEN "seed" ELSE "topo"
    /\ UNCHANGED <<arena, built, root, k, grad0, invoked, calls, last>>

\* self.grad = np.ones_like(self.data); print(topo)
Seed ==
    /\ pc = "seed"
    /\ arena' = SeedGrad(arena, root)
    /\ k' = 1
    /\ pc' = "replay"
    /\ UNCHANGED <<built, root, stack, visited, topo, grad0, invoked, calls, last>>

\* one iteration of "for node in reversed(topo): node._backward()"
Replay ==
    /\ pc = "replay"
    /\ k \in 1..Len(topo)
    /\ LET node == ReplayOrder(topo)[k]
       IN  /\ arena' = CallBackward(arena, node)
           /\ invoked' = Append(invoked, node)
    /\ k' = k + 1
    /\ pc' = IF k = Len(topo) THEN "idle" ELSE "replay"
    /\ UNCHANGED <<built, root, stack, visited, topo, grad0, calls, last>>

Construct ==
    \/ NewTensor
    \/ CallAdd
    \/ CallRadd
    \/ CallMul
    \/ CallRmul
    \/ CallNeg
    \/ CallSub
    \/ CallRsub
    \/ CallMatmul
    \/ CallPow
    \/ CallPowDirect
    \/ CallTruediv
    \/ CallExp

RunBackward ==
    \/ TopoVisit
    \/ TopoSkip
    \/ TopoAppend
    \/ Seed
    \/ Replay

Next == Construct \/ Backward \/ RunBackward

Spec == Init /\ [][Next]_vars

(***************************************************************************)
(* The expressions of the testable properties: each is built as the caller *)
(* builds it, from differentiable leaves with all values of a small range, *)
(* and backward is called once on its value.                               *)
(***************************************************************************)
ExprValues == {-1, 2}
ExprShapes == {<<1, 1>>, <<1, 2>>}
MatShapes == {<<m, n>> : m, n \in 1..MaxDim}
Arrays(sh) ==
    {[shape |-> sh, el |-> e] : e \in [1..(sh[1] * sh[2]) -> {Q(v) : v \in ExprValues}]}

T(i) == [t |-> "Tensor", i |-> i]
Leaves(xs) == [i \in 1..Len(xs) |-> Tensor(xs[i], <<>>, "", TRUE)]

\* a = Tensor(x, requires_grad=True); b = Tensor(y, requires_grad=True);
\* f = a * b + a
MulAddExprs ==
    {DunderAdd(DunderMul(Leaves(<<x, y>>), 1, T(2), o1), 3, T(1), o2) :
        <<x, y>> \in UNION {Arrays(sh) \X Arrays(sh) : sh \in ExprShapes},
        o1 \in Orders({1, 2}), o2 \in Orders({3, 1})}

\* f = a * b + a * b
SquareSumExprs ==
    {DunderAdd(DunderMul(DunderMul(Leaves(<<x, y>>), 1, T(2), o1), 1, T(2), o2),
               3, T(4), o3) :
        <<x, y>> \in UNION {Arrays(sh) \X Arrays(sh) : sh \in ExprShapes},
        o1 \in Orders({1, 2}), o2 \in Orders({1, 2}), o3 \in Orders({3, 4})}

\* m1 = a * b; m2 = a * c; f = m1 + m2
ProductSumExprs ==
    {DunderAdd(DunderMul(DunderMul(Leaves(<<x, y, z>>), 1, T(2), o1), 1, T(3), o2),
               4, T(5), o3) :
        <<x, y, z>> \in UNION {Arrays(sh) \X Arrays(sh) \X Arrays(sh) : sh \in {<<1, 1>>}},
        o1 \in Orders({1, 2}), o2 \in Orders({1, 3}), o3 \in Orders({4, 5})}

\* f = A @ B
MatmulExprs ==
    {DunderMatmul(Leaves(<<x, y>>), 1, T(2), o) :
        <<x, y>> \in UNION {Arrays(s1) \X Arrays(s2) :
                              <<s1, s2>> \in {p \in MatShapes \X MatShapes : p[1][2] = p[2][1]}},
        o \in Orders({1, 2})}

InitExpr ==
    /\ arena \in MulAddExprs \cup SquareSumExprs \cup ProductSumExprs \cup MatmulExprs
    /\ built = Len(arena)
    /\ last = NoCall
    /\ Idle

\* f.backward(), f the value of the expression
BackwardRoot ==
    /\ calls = <<>>
    /\ BackwardCall(Len(arena))

NextExpr == BackwardRoot \/ RunBackward

SpecExpr == InitExpr /\ [][NextExpr]_vars

(***************************************************************************)
(* Vocabulary of the properties.                                           *)
(***************************************************************************)
Range(f) == {f[i] : i \in DOMAIN f}
NoDuplicates(f) == \A i, j \in DOMAIN f : i # j => f[i] # f[j]

\* the children relation: the Tensors a Tensor was computed from
Children(ar, z) == Range(ar[z].prev)
Consumers(ar, n) == {z \in 1..Len(ar) : n \in Children(ar, z)}

RECURSIVE Closed(_, _)
Closed(ar, S) ==
    LET more == S \cup UNION {Children(ar, z) : z \in S}
    IN  IF more = S THEN S ELSE Closed(ar, more)

\* the Tensors reachable from r over the children relation
Reach(ar, r) == Closed(ar, {r})

\* a backward call has returned
Done == pc = "idle" /\ calls # <<>>

\* the arena as it was when the latest backward call started
Before == [n \in 1..Len(arena) |-> [arena[n] EXCEPT !.grad = grad0[n]]]

ZeroGrads(ar) == \A n \in 1..Len(ar) : ar[n].grad = ZerosLike(ar[n].data)

\* the first backward call, made with every grad zero, has returned
DoneFromZero == Done /\ Len(calls) = 1 /\ ZeroGrads(Before)

(***************************************************************************)
(* C1.  f = a * b + a.                                                     *)
(***************************************************************************)
IsMulAdd ==
    /\ Len(arena) = 4
    /\ arena[3].backward = Closure("Mul", 1, 2, NoClosure.p)
    /\ arena[4].backward = Closure("Add", 3, 1, NoClosure.p)

\* C1: for differentiable leaves a and b of matching shape with zero grads,
\* after f = a * b + a and one f.backward(), a.grad == b.data + 1 and
\* b.grad == a.data, elementwise.
C1_MulAddGradient ==
    (IsMulAdd /\ DoneFromZero) =>
        /\ arena[1].grad = NpAdd(arena[2].data, Scalar(Q(1)))
        /\ arena[2].grad = arena[1].data

(***************************************************************************)
(* C5.  f = A @ B.                                                         *)
(***************************************************************************)
IsMatmul ==
    /\ Len(arena) = 3
    /\ arena[3].backward = Closure("Matmul", 1, 2, NoClosure.p)

RECURSIVE SumTo(_, _)
SumTo(F(_), n) == IF n = 0 THEN Q(0) ELSE RAdd(SumTo(F, n - 1), F(n))

\* the entry of row i and column j of a matrix
Entry(x, i, j) == x.el[(i - 1) * x.shape[2] + j]

\* C5: for f = A @ B with differentiable leaves A of shape (m, k) and B of
\* shape (k, n) with zero grads, f.backward() leaves A.grad of shape (m, k)
\* equal to ones(m, n) @ transpose(B.data), whose entry (i, l) is the sum of
\* row l of B, and B.grad of shape (k, n) equal to transpose(A.data) @
\* ones(m, n), whose entry (l, j) is the sum of column l of A.
C5_MatmulGradient ==
    (IsMatmul /\ DoneFromZero) =>
        LET A == arena[1]
            B == arena[2]
            m == A.data.shape[1]
            kk == A.data.shape[2]
            n == B.data.shape[2]
        IN  /\ A.grad.shape = <<m, kk>>
            /\ B.grad.shape = <<kk, n>>
            /\ Len(A.grad.el) = m * kk
            /\ Len(B.grad.el) = kk * n
            /\ \A i \in 1..m, l \in 1..kk :
                 Entry(A.grad, i, l) = SumTo(LAMBDA j : Entry(B.data, l, j), n)
            /\ \A l \in 1..kk, j \in 1..n :
                 Entry(B.grad, l, j) = SumTo(LAMBDA i : Entry(A.data, i, l), m)

\* C5's case: the gradient of a product of two 2 x 2 matrices, B not symmetric
C5_Witness ==
    /\ IsMatmul
    /\ DoneFromZero
    /\ arena[1].data.shape = <<2, 2>>
    /\ arena[2].data.shape = <<2, 2>>
    /\ Entry(arena[2].data, 1, 2) # Entry(arena[2].data, 2, 1)
    /\ Entry(arena[1].data, 1, 2) # Entry(arena[1].data, 2, 1)
    /\ Entry(arena[1].grad, 1, 1) # Entry(arena[1].grad, 1, 2)

(***************************************************************************)
(* C2.  Accumulation.                                                      *)
(***************************************************************************)
\* what consumer z's _backward adds to x's grad when it runs on its own: on
\* the arena with every grad but z's zero
Contribution(ar, z, x) ==
    CallBackward([n \in 1..Len(ar) |->
                    IF n = z THEN ar[n] ELSE [ar[n] EXCEPT !.grad = ZerosLike(@)]],
                 z)[x].grad

RECURSIVE SumOfContributions(_, _, _)
SumOfContributions(ar, Z, x) ==
    IF Z = {} THEN ZerosLike(ar[x].data)
    ELSE LET z == CHOOSE y \in Z : TRUE
         IN  NpAdd(Contribution(ar, z, x), SumOfContributions(ar, Z \ {z}, x))

Shared(n) == Cardinality(Consumers(arena, n) \cap Reach(arena, root)) >= 2

\* C2: after one backward(root) from zero grads, the grad of a differentiable
\* node that is an operand of two different operations of the graph equals
\* the sum of the contributions each consumer's backward rule produces on
\* its own.
C2_Accumulation ==
    DoneFromZero =>
        \A x \in Reach(arena, root) :
            (arena[x].requires_grad /\ Shared(x)) =>
                arena[x].grad =
                    SumOfContributions(arena, Consumers(arena, x) \cap Reach(arena, root), x)

(***************************************************************************)
(* C9.  Determinism.                                                       *)
(***************************************************************************)
\* the arenas that differ from ar only in the iteration orders of the sets
\* _prev
Reorderings(ar) ==
    {[n \in 1..Len(ar) |-> [ar[n] EXCEPT !.prev = o[n]]] :
        o \in {f \in [1..Len(ar) -> UNION {Orders(Children(ar, n)) : n \in 1..Len(ar)}] :
                 \A n \in 1..Len(ar) : f[n] \in Orders(Children(ar, n))}}

\* C9: the grads after backward(root) do not depend on the order in which the
\* children sets are iterated: a run that differs only in that order ends
\* with the same grad on every node.
C9_Deterministic ==
    Done =>
        \A other \in Reorderings(Before) :
            Grads(RunToEnd(other, root)) = Grads(arena)

(***************************************************************************)
(* C3.  requires_grad.                                                     *)
(***************************************************************************)
Operands(ar, z) == {ar[z].backward.a, ar[z].backward.b} \ {0}
IsResult(ar, z) == ar[z].backward.fn # "None"

\* every node a constructor produced carries the OR of its operands' flags
FlagsAreOr ==
    \A z \in 1..Len(arena) :
        IsResult(arena, z) =>
            (arena[z].requires_grad <=> \E x \in Operands(arena, z) : arena[x].requires_grad)

\* built purely from operands that do not require grad
FromNoGrad(z) ==
    IsResult(arena, z) /\ \A x \in Operands(arena, z) : ~arena[x].requires_grad

\* the root has been seeded in the backward call under way (or just over)
Seeded == calls # <<>> /\ pc \in {"replay", "idle"}

\* C3 (as claimed): a constructor's result has requires_grad equal to the OR
\* of its operands' flags, and a node built purely from requires_grad=false
\* operands receives no write to its grad during backward(root), also when
\* it is the root itself.
C3_NoGradNoWrite ==
    /\ FlagsAreOr
    /\ calls # <<>> =>
         \A z \in 1..Len(arena) : FromNoGrad(z) => arena[z].grad = grad0[z]

\* C3 (amended): a constructor's result has requires_grad equal to the OR of
\* its operands' flags, and no _backward writes to the grad of a node that
\* does not require grad (one built purely from requires_grad=false operands,
\* or a leaf made so): during backward(root) its grad stays what it was,
\* except that the root's grad is set to ones by the seed.
C3_NoGradOnlySeeded ==
    /\ FlagsAreOr
    /\ calls # <<>> =>
         \A z \in 1..Len(arena) :
            ~arena[z].requires_grad =>
                arena[z].grad = IF z = root /\ Seeded
                                THEN OnesLike(arena[z].data)
                                ELSE grad0[z]

\* C3's case: a backward call is over that went through a node built purely
\* from requires_grad=false operands, other than the root, and wrote grads
\* of other nodes
C3_Witness ==
    /\ Done
    /\ \E z \in Reach(arena, root) \ {root} :
         /\ FromNoGrad(z)
         /\ z \in Range(invoked)
         /\ \E c \in Consumers(arena, z) : arena[c].requires_grad /\ arena[c].grad # grad0[c]
    /\ \E x \in Reach(arena, root) \ {root} : arena[x].grad # grad0[x]

(***************************************************************************)
(* C4.  backward called twice.                                             *)
(***************************************************************************)
Twice(x) == NpAdd(x, x)

\* C4: calling backward(root) a second time without resetting grad adds a
\* second copy of every gradient: every node reachable from the root has
\* exactly twice the grad it had after the first call, which started from
\* zero grads.  (Stated for the nodes below the root: the root's own grad is
\* the seed, ones after either call.)
C4_SecondCallDoubles ==
    (pc = "idle" /\ Len(calls) = 2 /\ calls[1] = calls[2]) =>
        \A n \in Reach(arena, root) \ {root} : arena[n].grad = Twice(grad0[n])

(***************************************************************************)
(* C6.  Subtraction with a scalar literal.                                 *)
(***************************************************************************)
\* the latest constructor call was name, with a scalar literal, and nothing
\* but one backward call on its result has happened since
LiteralCall(name) ==
    /\ last.call = name
    /\ last.other.t = "scalar"
    /\ Len(arena) = Len(last.before) + 3

\* C6: for a differentiable node a and a scalar literal c, the node for c - a
\* has data c - a.data and backward on it leaves a.grad == -1, while a - c
\* has data a.data - c and leaves a.grad == +1 (a's grad zero before).
C6_ScalarSubtraction ==
    /\ LiteralCall("__rsub__") =>
         LET a == last.self
             c == Scalar(Q(last.other.v))
             z == Len(arena)
         IN  /\ arena[z].data = NpAdd(c, NpNeg(arena[a].data))
             /\ (DoneFromZero /\ root = z /\ arena[a].requires_grad) =>
                    arena[a].grad = NpNeg(OnesLike(arena[a].data))
    /\ LiteralCall("__sub__") =>
         LET a == last.self
             c == Scalar(Q(last.other.v))
             z == Len(arena)
         IN  /\ arena[z].data = NpAdd(arena[a].data, NpNeg(c))
             /\ (DoneFromZero /\ root = z /\ arena[a].requires_grad) =>
                    arena[a].grad = OnesLike(arena[a].data)

(***************************************************************************)
(* C10.  The exponent of Pow.                                              *)
(***************************************************************************)
\* C10: constructing a power node with an exponent that is not an int or a
\* float fails with an error at construction time, through the ** operator
\* and through Pow called directly, and creates no node and changes no
\* existing node.
C10_PowValidates ==
    (calls = <<>> /\ last.call \in {"__pow__", "Pow"} /\ ~IsIntOrFloat(last.other)) =>
        /\ last.raised # ""
        /\ arena = last.before

TopoIsPostOrder ==
    /\ NoDuplicates(topo)
    /\ Range(topo) = Reach(arena, root)
    /\ \A j \in 1..Len(topo) :
         \A c \in Children(arena, topo[j]) :
            \E i \in 1..(j - 1) : topo[i] = c

\* what build_topo has left to do: a step for each child still to look at and
\* one to append, for every frame and for every reachable node not yet visited
RECURSIVE Count(_, _)
Count(F(_), n) == IF n = 0 THEN 0 ELSE Count(F, n - 1) + F(n)

TopoWork ==
    LET reach == Reach(arena, root)
    IN  Count(LAMBDA v : IF v \in reach \ visited THEN Len(arena[v].prev) + 1 ELSE 0,
              Len(arena))
          + Count(LAMBDA f : Len(arena[stack[f].v].prev) - stack[f].i + 2, Len(stack))
          + Cardinality(reach)

\* the steps backward(root) has left: those of build_topo, the seed, and an
\* iteration of the replay for each node of the order
Variant ==
    CASE pc = "topo" -> TopoWork + 1
      [] pc = "seed" -> Len(topo) + 1
      [] pc = "replay" -> Len(topo) + 1 - k
      [] pc = "idle" -> 0

\* backward(root) has a step to take: build_topo is in a call, the replay at
\* a node of the order
CanStep ==
    CASE pc = "topo" -> ENABLED (TopoVisit \/ TopoSkip \/ TopoAppend)
      [] pc = "seed" -> ENABLED Seed
      [] pc = "replay" -> k \in 1..Len(topo)
      [] pc = "idle" -> TRUE

\* where backward(root) stands: it can go on, the order recorded so far has
\* no node twice, and once build_topo has returned it is a post-order of the
\* nodes reachable from the root; no backward_fn has been invoked twice, and
\* when backward returns all of the reachable nodes' have been
TraversalOk ==
    /\ CanStep
    /\ Variant >= 0
    /\ (pc \in {"seed", "replay"} \/ Done) => TopoIsPostOrder
    /\ calls # <<>> =>
         /\ NoDuplicates(topo)
         /\ NoDuplicates(invoked)
         /\ Range(invoked) \subseteq Reach(arena, root)
    /\ Done => Range(invoked) = Reach(arena, root)

\* C8: backward(root) terminates (every step of it is followed by another
\* until it returns, and each step takes one from a count that is never
\* negative), the recorded order contains every node reachable from root
\* exactly once with each node after all of its children, and each reachable
\* node's backward_fn is invoked exactly once per backward call.
C8_Traversal ==
    [][/\ TraversalOk'
       /\ pc # "idle" => Variant' = Variant - 1]_vars

\* C8's case: a backward call is over on a graph with a shared subgraph: a
\* node with two consumers that has a child of its own
C8_Witness ==
    /\ Done
    /\ \E n \in Reach(arena, root) : Shared(n) /\ Children(arena, n) # {}

====
